---------------------------- MODULE Spec2Model ----------------------------
(***************************************************************************)
(* libscapi: the Pedersen commitment scheme (CommitmentSchemePedersen.cpp) *)
(* and the Sigma protocol for Diffie-Hellman tuples (SigmaProtocolDH.cpp), *)
(* over a Zp* safe-prime discrete-log group.                               *)
(***************************************************************************)
EXTENDS Integers, Sequences, FiniteSets, TLC

(***************************************************************************)
(* Bounds of the model.                                                    *)
(***************************************************************************)
\* how many commitments a committer session generates (draws of r)
MaxCommits == 2
\* how many messages the committer -> receiver channel holds unread
MaxInFlight == 1
\* the commitment ids the callers use (long id)
Ids == {3, 7}

(***************************************************************************)
(* DlogGroup: the subgroup of prime order q of Zp*, p = 2q+1, generated by *)
(* g.  Elements are their residues modulo p.                               *)
(***************************************************************************)
\* the group the Pedersen sessions run over
dlogPedersen == [p |-> 7, q |-> 3, g |-> 2]

RECURSIVE modPow(_, _, _)
modPow(base, exponent, modulus) ==
    IF exponent = 0 THEN 1 % modulus
    ELSE IF exponent % 2 = 0
         THEN LET half == modPow(base, exponent \div 2, modulus)
              IN  (half * half) % modulus
         ELSE (base * modPow(base, exponent - 1, modulus)) % modulus

getOrder(dlog) == dlog.q

getGenerator(dlog) == dlog.g

\* a negative exponent is reduced modulo q first
exponentiate(dlog, base, exponent) ==
    modPow(base, IF exponent < 0 THEN exponent % dlog.q ELSE exponent, dlog.p)

multiplyGroupElements(dlog, a, b) == (a * b) % dlog.p

isMember(dlog, e) ==
    /\ e \in 1..(dlog.p - 1)
    /\ modPow(e, dlog.q, dlog.p) = 1

GroupElements(dlog) == {e \in 1..(dlog.p - 1) : isMember(dlog, e)}

\* reconstructElement(bCheckMembership = true, data): the element, or the
\* invalid_argument the element constructor throws for a non-member
reconstructElement(dlog, data) ==
    IF isMember(dlog, data)
    THEN [ok |-> TRUE, element |-> data]
    ELSE [ok |-> FALSE, element |-> 0]

\* getRandomInRange(min, max, random): the values it can return
getRandomInRange(min, max) == min..max

(***************************************************************************)
(* Wire forms.  A message is the string its toString() builds: decimal     *)
(* numbers joined by ':'.  A string is a sequence of characters.           *)
(***************************************************************************)
Digits == <<"0", "1", "2", "3", "4", "5", "6", "7", "8", "9">>

RECURSIVE natToString(_)
natToString(n) ==
    IF n < 10 THEN <<Digits[n + 1]>>
    ELSE Append(natToString(n \div 10), Digits[(n % 10) + 1])

\* biginteger::str(), to_string(long)
intToString(n) == IF n < 0 THEN <<"-">> \o natToString(-n) ELSE natToString(n)

digitValue(c) == CHOOSE d \in 0..9 : Digits[d + 1] = c

RECURSIVE stringToNat(_)
stringToNat(s) ==
    IF s = <<>> THEN 0
    ELSE 10 * stringToNat(SubSeq(s, 1, Len(s) - 1)) + digitValue(s[Len(s)])

\* biginteger(string), stol(string)
stringToInt(s) ==
    IF s # <<>> /\ s[1] = "-" THEN -stringToNat(Tail(s)) ELSE stringToNat(s)

\* explode(s, ':') for a string holding one separator: the two parts
explode(s) ==
    LET k == CHOOSE i \in 1..Len(s) : s[i] = ":" /\ \A j \in 1..(i - 1) : s[j] # ":"
    IN  <<SubSeq(s, 1, k - 1), SubSeq(s, k + 1, Len(s))>>

\* GroupElementSendableData::toString / initFromString
elementToString(e) == intToString(e)

elementFromString(s) == stringToInt(s)

\* CmtPedersenCommitmentMessage::toString: id ':' c
commitmentMsgToString(msg) == intToString(msg.id) \o <<":">> \o elementToString(msg.c)

\* CmtPedersenCommitmentMessage::initFromByteVector
commitmentMsgFromString(s) ==
    LET parts == explode(s)
    IN  [null |-> FALSE, id |-> stringToInt(parts[1]), c |-> elementFromString(parts[2])]

\* CmtPedersenDecommitmentMessage::toString: x ':' r
decommitmentMsgToString(msg) == intToString(msg.x) \o <<":">> \o intToString(msg.r)

\* CmtPedersenDecommitmentMessage::initFromByteVector
decommitmentMsgFromString(s) ==
    LET parts == explode(s)
    IN  [null |-> FALSE, x |-> stringToInt(parts[1]), r |-> stringToInt(parts[2])]

\* a null shared_ptr, as std::map::operator[] inserts for a missing key
NULL == [null |-> TRUE]

(***************************************************************************)
(* State.                                                                  *)
(***************************************************************************)
VARIABLES
    rcvState,          \* receiver: "none" before construction, then "ready"
    trapdoor,          \* receiver's secret scalar
    rcvH,              \* receiver's h = g^trapdoor
    rcvCommitmentMap,  \* receiver's commitmentMap: id -> commitment message
    cmtState,          \* committer: "none", "ready", "crashed"
    cmtH,              \* the h the committer received
    cmtCommitmentMap,  \* committer's commitmentMap: id -> (r, x, c)
    cmtDraws,          \* how many times the committer sampled r
    toCommitter,       \* channel receiver -> committer
    toReceiver,        \* channel committer -> receiver
    ret,               \* the last call: operation, arguments, what it returned
    pvT,               \* prover: soundness parameter t, -1 before construction
    pvInput,           \* prover: the SigmaDHProverInput of computeFirstMsg
    pvR,               \* prover: the random value r
    vfT,               \* verifier: soundness parameter t, -1 before construction
    vfE,               \* verifier: the challenge bytes e
    simT,              \* simulator: soundness parameter t, -1 before construction
    wire,              \* the messages of the current run, as the parties pass them
    sret,              \* the last Sigma call: operation, what it returned
    acceptedFor        \* the answers verify accepted for one first message

pedVars == <<rcvState, trapdoor, rcvH, rcvCommitmentMap, cmtState, cmtH,
             cmtCommitmentMap, cmtDraws, toCommitter, toReceiver, ret>>

sigVars == <<pvT, pvInput, pvR, vfT, vfE, simT, wire, sret, acceptedFor>>

vars == <<pedVars, sigVars>>

emptyMap == [id \in {} |-> NULL]

\* std::map::operator[] as an lvalue / rvalue
mapPut(m, key, value) == [k \in (DOMAIN m) \cup {key} |-> IF k = key THEN value ELSE m[k]]

mapGet(m, key) == IF key \in DOMAIN m THEN m[key] ELSE NULL

mapTouch(m, key) == IF key \in DOMAIN m THEN m ELSE mapPut(m, key, NULL)

\* op: the operation; id, x, r: its arguments and the message it read;
\* result, value: what it returned or threw
call(op, id, x, r, result, value) ==
    [op |-> op, id |-> id, x |-> x, r |-> r, result |-> result, value |-> value]

(***************************************************************************)
(* Sigma protocol DH: the group, the inputs and the values drawn.          *)
(***************************************************************************)
\* the group the Sigma protocol objects run over: 2^8 < q
dlogSigma == [p |-> 563, q |-> 281, g |-> 4]

\* the soundness parameters the objects are constructed with
SoundnessParams == {4, 8, 9}

\* the three checkSoundnessParam functions: 2^t < q
simCheckSoundnessParam(dlog, t) == 2^t < getOrder(dlog)

pvCheckSoundnessParam_bytes(dlog, t) == 2^(t \div 8) < getOrder(dlog)

pvCheckSoundnessParam(dlog, t) == 2^t < getOrder(dlog)

vfCheckSoundnessParam(dlog, t) == 2^t < getOrder(dlog)

\* SigmaDHCommonInput (h, u, v) and SigmaDHProverInput (common input, w)
commonInput(h, u, v) == [h |-> h, u |-> u, v |-> v]

proverInput(h, u, v, w) == [null |-> FALSE, common |-> commonInput(h, u, v), w |-> w]

\* h = g^2 with the witness 5; a tuple that is no Diffie-Hellman tuple
\* (v = h^6), with the w of its u; and an h that is no member of the group
ProverInputs ==
    { proverInput(16, 461, 270, 5),
      proverInput(16, 461, 379, 5),
      proverInput(2, 461, 32, 5) }

CommonInputs == {i.common : i \in ProverInputs}

\* the values of r and z the model lets getRandomInRange(0, q - 1) return
RandomSample == {0, 7}

\* the bytes the model lets gen_random_bytes_vector return
ByteSample == {0, 255}

RECURSIVE byteVectors(_)
byteVectors(n) ==
    IF n = 0 THEN {<<>>}
    ELSE {Append(v, b) : v \in byteVectors(n - 1), b \in ByteSample}

\* gen_random_bytes_vector(e, t / 8, random)
genRandomBytesVector(t) == byteVectors(t \div 8)

RECURSIVE decodeBigInteger(_)
decodeBigInteger(bytes) ==
    IF bytes = <<>> THEN 0
    ELSE 256 * decodeBigInteger(SubSeq(bytes, 1, Len(bytes) - 1)) + bytes[Len(bytes)]

\* SigmaDHMsg::toString: a ':' b
sigmaDHMsgToString(a, b) == elementToString(a) \o <<":">> \o elementToString(b)

\* SigmaDHMsg::initFromString
sigmaDHMsgFromString(s) ==
    LET str_vec == explode(s)
    IN  [a |-> elementFromString(str_vec[1]), b |-> elementFromString(str_vec[2])]

noWire == [stage |-> "none", common |-> commonInput(0, 0, 0), first |-> <<>>,
           challenge |-> <<>>, second |-> 0, delivered |-> 0]

\* op: the operation; result: what it returned or threw; e: the challenge
\* verify decoded
sigmaCall(op, result, e) == [op |-> op, result |-> result, e |-> e]

\* no party of a Pedersen session exists; the prover, the verifier and the
\* simulator were constructed with one soundness parameter their
\* checkSoundnessParam admits
InitSigma ==
    /\ rcvState = "none"
    /\ trapdoor = 0
    /\ rcvH = 0
    /\ rcvCommitmentMap = emptyMap
    /\ cmtState = "none"
    /\ cmtH = 0
    /\ cmtCommitmentMap = emptyMap
    /\ cmtDraws = 0
    /\ toCommitter = <<>>
    /\ toReceiver = <<>>
    /\ ret = call("none", 0, 0, 0, "none", 0)
    /\ \E t \in {t \in SoundnessParams : pvCheckSoundnessParam(dlogSigma, t)} :
          /\ pvT = t
          /\ vfT = t
          /\ simT = t
    /\ pvInput = NULL
    /\ pvR = 0
    /\ vfE = <<>>
    /\ wire = noWire
    /\ sret = sigmaCall("none", "none", 0)
    /\ acceptedFor = {}

\* no party of a Pedersen session and no Sigma protocol object exists
Init ==
    /\ rcvState = "none"
    /\ trapdoor = 0
    /\ rcvH = 0
    /\ rcvCommitmentMap = emptyMap
    /\ cmtState = "none"
    /\ cmtH = 0
    /\ cmtCommitmentMap = emptyMap
    /\ cmtDraws = 0
    /\ toCommitter = <<>>
    /\ toReceiver = <<>>
    /\ ret = call("none", 0, 0, 0, "none", 0)
    /\ pvT = -1
    /\ vfT = -1
    /\ simT = -1
    /\ pvInput = NULL
    /\ pvR = 0
    /\ vfE = <<>>
    /\ wire = noWire
    /\ sret = sigmaCall("none", "none", 0)
    /\ acceptedFor = {}

(***************************************************************************)
(* CmtPedersenReceiverCore                                                 *)
(***************************************************************************)
receiverConstruct_sampleFirst(hasDDH, validGroup) ==
    /\ UNCHANGED sigVars
    /\ rcvState = "none"
    /\ \E t \in getRandomInRange(0, getOrder(dlogPedersen) - 1) :
          LET h == exponentiate(dlogPedersen, getGenerator(dlogPedersen), t)
          IN  /\ trapdoor' = t
              /\ rcvH' = h
              /\ toCommitter' = IF hasDDH /\ validGroup
                                 THEN Append(toCommitter, elementToString(h))
                                 ELSE toCommitter
    /\ rcvState' = IF hasDDH /\ validGroup THEN "ready" ELSE "failed"
    /\ ret' = call("CmtPedersenReceiverCore", 0, 0, 0,
                   IF ~hasDDH THEN "SecurityLevelException"
                   ELSE IF ~validGroup THEN "InvalidDlogGroupException" ELSE "ok", 0)
    /\ UNCHANGED <<rcvCommitmentMap, cmtState, cmtH, cmtCommitmentMap, cmtDraws,
                   toReceiver>>

\* doConstruct + preProcess, for a group that is, or is not, a DDH group
\* and whose validateGroup() holds, or does not: the two checks, then sample
\* the trapdoor, compute h, write it
receiverConstruct(hasDDH, validGroup) ==
    /\ UNCHANGED sigVars
    /\ rcvState = "none"
    /\ IF ~hasDDH
       THEN /\ rcvState' = "failed"
            /\ ret' = call("CmtPedersenReceiverCore", 0, 0, 0, "SecurityLevelException", 0)
            /\ UNCHANGED <<trapdoor, rcvH, toCommitter>>
       ELSE IF ~validGroup
       THEN /\ rcvState' = "failed"
            /\ ret' = call("CmtPedersenReceiverCore", 0, 0, 0, "InvalidDlogGroupException", 0)
            /\ UNCHANGED <<trapdoor, rcvH, toCommitter>>
       ELSE /\ \E t \in getRandomInRange(0, getOrder(dlogPedersen) - 1) :
                  LET h == exponentiate(dlogPedersen, getGenerator(dlogPedersen), t)
                  IN  /\ trapdoor' = t
                      /\ rcvH' = h
                      /\ toCommitter' = Append(toCommitter, elementToString(h))
            /\ rcvState' = "ready"
            /\ ret' = call("CmtPedersenReceiverCore", 0, 0, 0, "ok", 0)
    /\ UNCHANGED <<rcvCommitmentMap, cmtState, cmtH, cmtCommitmentMap, cmtDraws,
                   toReceiver>>

receiveCommitment_writesBack ==
    /\ UNCHANGED sigVars
    /\ rcvState = "ready"
    /\ toReceiver # <<>>
    /\ Head(toReceiver).step = "commit"
    /\ LET msg == commitmentMsgFromString(Head(toReceiver).bytes)
       IN  /\ rcvCommitmentMap' = mapPut(rcvCommitmentMap, msg.id, msg)
           /\ ret' = call("receiveCommitment", msg.id, 0, 0, "ok", msg.id)
           /\ toCommitter' = Append(toCommitter, intToString(msg.id))
    /\ toReceiver' = Tail(toReceiver)
    /\ UNCHANGED <<rcvState, trapdoor, rcvH, cmtState, cmtH, cmtCommitmentMap,
                   cmtDraws>>

\* reads one message, stores it under the id it carries
receiveCommitment ==
    /\ UNCHANGED sigVars
    /\ rcvState = "ready"
    /\ toReceiver # <<>>
    /\ Head(toReceiver).step = "commit"
    /\ LET msg == commitmentMsgFromString(Head(toReceiver).bytes)
       IN  /\ rcvCommitmentMap' = mapPut(rcvCommitmentMap, msg.id, msg)
           /\ ret' = call("receiveCommitment", msg.id, 0, 0, "ok", msg.id)
    /\ toReceiver' = Tail(toReceiver)
    /\ UNCHANGED <<rcvState, trapdoor, rcvH, cmtState, cmtH, cmtCommitmentMap,
                   cmtDraws, toCommitter>>

verifyDecommitment_nullIsNone(dlog, h, commitmentMsg, decommitmentMsg) ==
    IF decommitmentMsg.null
    THEN [result |-> "invalid_argument", value |-> 0]
    ELSE IF commitmentMsg.null
    THEN [result |-> "None", value |-> 0]
    ELSE LET x == decommitmentMsg.x
             r == decommitmentMsg.r
         IN  IF x < 0 \/ x > getOrder(dlog)
             THEN [result |-> "None", value |-> 0]
             ELSE LET gTor == exponentiate(dlog, getGenerator(dlog), r)
                      hTox == exponentiate(dlog, h, x)
                      commitmentElement == reconstructElement(dlog, commitmentMsg.c)
                  IN  IF ~commitmentElement.ok
                      THEN [result |-> "invalid_argument", value |-> 0]
                      ELSE IF commitmentElement.element
                                = multiplyGroupElements(dlog, gTor, hTox)
                           THEN [result |-> "Some", value |-> x]
                           ELSE [result |-> "None", value |-> 0]

verifyDecommitment_rejectBoundary(dlog, h, commitmentMsg, decommitmentMsg) ==
    IF decommitmentMsg.null \/ commitmentMsg.null
    THEN [result |-> "invalid_argument", value |-> 0]
    ELSE LET x == decommitmentMsg.x
             r == decommitmentMsg.r
         IN  IF x < 0 \/ x >= getOrder(dlog)
             THEN [result |-> "None", value |-> 0]
             ELSE LET gTor == exponentiate(dlog, getGenerator(dlog), r)
                      hTox == exponentiate(dlog, h, x)
                      commitmentElement == reconstructElement(dlog, commitmentMsg.c)
                  IN  IF ~commitmentElement.ok
                      THEN [result |-> "invalid_argument", value |-> 0]
                      ELSE IF commitmentElement.element
                                = multiplyGroupElements(dlog, gTor, hTox)
                           THEN [result |-> "Some", value |-> x]
                           ELSE [result |-> "None", value |-> 0]

verifyDecommitment_ignoreR(dlog, h, commitmentMsg, decommitmentMsg) ==
    IF decommitmentMsg.null \/ commitmentMsg.null
    THEN [result |-> "invalid_argument", value |-> 0]
    ELSE LET x == decommitmentMsg.x
         IN  IF x < 0 \/ x > getOrder(dlog)
             THEN [result |-> "None", value |-> 0]
             ELSE LET gTor == exponentiate(dlog, getGenerator(dlog), 0)
                      hTox == exponentiate(dlog, h, x)
                      commitmentElement == reconstructElement(dlog, commitmentMsg.c)
                  IN  IF ~commitmentElement.ok
                      THEN [result |-> "invalid_argument", value |-> 0]
                      ELSE IF commitmentElement.element
                                = multiplyGroupElements(dlog, gTor, hTox)
                           THEN [result |-> "Some", value |-> x]
                           ELSE [result |-> "None", value |-> 0]

\* result "Some" with the value: a CmtBigIntegerCommitValue; "None": the NULL
\* the source returns to reject; "invalid_argument": the exception
verifyDecommitment(dlog, h, commitmentMsg, decommitmentMsg) ==
    IF decommitmentMsg.null \/ commitmentMsg.null
    THEN [result |-> "invalid_argument", value |-> 0]
    ELSE LET x == decommitmentMsg.x
             r == decommitmentMsg.r
         IN  IF x < 0 \/ x > getOrder(dlog)
             THEN [result |-> "None", value |-> 0]
             ELSE LET gTor == exponentiate(dlog, getGenerator(dlog), r)
                      hTox == exponentiate(dlog, h, x)
                      commitmentElement == reconstructElement(dlog, commitmentMsg.c)
                  IN  IF ~commitmentElement.ok
                      THEN [result |-> "invalid_argument", value |-> 0]
                      ELSE IF commitmentElement.element
                                = multiplyGroupElements(dlog, gTor, hTox)
                           THEN [result |-> "Some", value |-> x]
                           ELSE [result |-> "None", value |-> 0]

\* reads one message, looks commitmentMap[id] up (operator[] inserts a null
\* entry for a missing id) and verifies
receiveDecommitment(id) ==
    /\ UNCHANGED sigVars
    /\ rcvState = "ready"
    /\ toReceiver # <<>>
    /\ Head(toReceiver).step = "decommit"
    /\ LET msg == decommitmentMsgFromString(Head(toReceiver).bytes)
           receivedCommitment == mapGet(rcvCommitmentMap, id)
           verdict == verifyDecommitment(dlogPedersen, rcvH, receivedCommitment, msg)
       IN  /\ rcvCommitmentMap' = mapTouch(rcvCommitmentMap, id)
           /\ ret' = call("receiveDecommitment", id, msg.x, msg.r,
                          verdict.result, verdict.value)
    /\ toReceiver' = Tail(toReceiver)
    /\ UNCHANGED <<rcvState, trapdoor, rcvH, cmtState, cmtH, cmtCommitmentMap,
                   cmtDraws, toCommitter>>

(***************************************************************************)
(* CmtPedersenCommitterCore                                                *)
(***************************************************************************)
\* doConstruct + preProcess: the two checks of the group, then read h,
\* reconstruct it with the membership check (it throws for a non-member)
\* and check that it is a member.  ret.x: the element read
committerConstruct(hasDDH, validGroup) ==
    /\ UNCHANGED sigVars
    /\ cmtState = "none"
    /\ IF ~hasDDH
       THEN /\ cmtState' = "failed"
            /\ ret' = call("CmtPedersenCommitterCore", 0, 0, 0, "SecurityLevelException", 0)
            /\ UNCHANGED <<cmtH, toCommitter>>
       ELSE IF ~validGroup
       THEN /\ cmtState' = "failed"
            /\ ret' = call("CmtPedersenCommitterCore", 0, 0, 0, "InvalidDlogGroupException", 0)
            /\ UNCHANGED <<cmtH, toCommitter>>
       ELSE /\ toCommitter # <<>>
            /\ toCommitter' = Tail(toCommitter)
            /\ LET msg == elementFromString(Head(toCommitter))
                   h == reconstructElement(dlogPedersen, msg)
               IN  IF ~h.ok
                   THEN /\ cmtState' = "failed"
                        /\ ret' = call("CmtPedersenCommitterCore", 0, msg, 0,
                                       "invalid_argument", 0)
                        /\ UNCHANGED cmtH
                   ELSE IF ~isMember(dlogPedersen, h.element)
                   THEN /\ cmtState' = "failed"
                        /\ cmtH' = h.element
                        /\ ret' = call("CmtPedersenCommitterCore", 0, msg, 0,
                                       "CheatAttemptException", 0)
                   ELSE /\ cmtState' = "ready"
                        /\ cmtH' = h.element
                        /\ ret' = call("CmtPedersenCommitterCore", 0, msg, 0, "ok", 0)
    /\ UNCHANGED <<rcvState, trapdoor, rcvH, rcvCommitmentMap, cmtCommitmentMap,
                   cmtDraws, toReceiver>>

inputInRange_strict(dlog, x) == ~(x < 0 \/ x >= getOrder(dlog))

\* the range check of generateCommitmentMsg
inputInRange(dlog, x) == ~(x < 0 \/ x > getOrder(dlog))

computeCommitment_noR(dlog, h, x, r) ==
    exponentiate(dlog, h, x)

computeCommitment_noH(dlog, h, x, r) ==
    exponentiate(dlog, getGenerator(dlog), r)

\* c = g^r * h^x
computeCommitment(dlog, h, x, r) ==
    LET gToR == exponentiate(dlog, getGenerator(dlog), r)
        hToX == exponentiate(dlog, h, x)
    IN  multiplyGroupElements(dlog, gToR, hToX)

\* CmtCommitter::commit: generateCommitmentMsg(x, id), then the message is
\* written to the channel.  An x out of range throws before r is sampled.
commit(x, id) ==
    /\ UNCHANGED sigVars
    /\ cmtState = "ready"
    /\ IF ~inputInRange(dlogPedersen, x)
       THEN /\ ret' = call("generateCommitmentMsg", id, x, 0, "invalid_argument", 0)
            /\ UNCHANGED <<cmtCommitmentMap, cmtDraws, toReceiver>>
       ELSE /\ cmtDraws < MaxCommits
            /\ Len(toReceiver) < MaxInFlight
            /\ \E r \in getRandomInRange(0, getOrder(dlogPedersen) - 1) :
                  LET c == computeCommitment(dlogPedersen, cmtH, x, r)
                      msg == [null |-> FALSE, id |-> id, c |-> c]
                  IN  /\ cmtCommitmentMap' = mapPut(cmtCommitmentMap, id,
                              [null |-> FALSE, r |-> r, x |-> x, c |-> c])
                      /\ ret' = call("generateCommitmentMsg", id, x, 0, "ok", c)
                      /\ toReceiver' = Append(toReceiver,
                              [step |-> "commit", bytes |-> commitmentMsgToString(msg)])
            /\ cmtDraws' = cmtDraws + 1
    /\ UNCHANGED <<rcvState, trapdoor, rcvH, rcvCommitmentMap, cmtState, cmtH,
                   toCommitter>>

\* the (x, r) a decommitment message can carry
DecommitX == (-1)..(getOrder(dlogPedersen) + 1)

DecommitR == 0..(getOrder(dlogPedersen) - 1)

\* what generateDecommitmentMsg does with commitmentMap[id]: for a stored
\* entry the message (x, r); for the null entry operator[] inserts for an id
\* never committed, values->getX() dereferences null, and the process dies
\* or goes on with whatever it read
decommitOutcomes(values) ==
    IF values.null
    THEN {[kind |-> "crash", x |-> 0, r |-> 0]}
           \cup {[kind |-> "garbage", x |-> x, r |-> r] : x \in DecommitX, r \in DecommitR}
    ELSE {[kind |-> "ok", x |-> values.x, r |-> values.r]}

\* CmtCommitter::decommit: generateDecommitmentMsg(id), then the message is
\* written to the channel
decommit(id) ==
    /\ UNCHANGED sigVars
    /\ cmtState = "ready"
    /\ Len(toReceiver) < MaxInFlight
    /\ cmtCommitmentMap' = mapTouch(cmtCommitmentMap, id)
    /\ \E outcome \in decommitOutcomes(mapGet(cmtCommitmentMap, id)) :
          /\ ret' = call("generateDecommitmentMsg", id, 0, 0, outcome.kind, outcome.x)
          /\ cmtState' = IF outcome.kind = "crash" THEN "crashed" ELSE cmtState
          /\ toReceiver' =
                IF outcome.kind = "crash" THEN toReceiver
                ELSE Append(toReceiver,
                        [step |-> "decommit",
                         bytes |-> decommitmentMsgToString([x |-> outcome.x, r |-> outcome.r])])
    /\ UNCHANGED <<rcvState, trapdoor, rcvH, rcvCommitmentMap, cmtH, cmtDraws,
                   toCommitter>>

\* a cheating committer writes a decommitment message of its own making
cheatDecommit(x, r) ==
    /\ UNCHANGED sigVars
    /\ cmtState = "ready"
    /\ Len(toReceiver) < MaxInFlight
    /\ toReceiver' = Append(toReceiver,
          [step |-> "decommit", bytes |-> decommitmentMsgToString([x |-> x, r |-> r])])
    /\ ret' = call("cheatDecommit", 0, x, r, "sent", 0)
    /\ UNCHANGED <<rcvState, trapdoor, rcvH, rcvCommitmentMap, cmtState, cmtH,
                   cmtCommitmentMap, cmtDraws, toCommitter>>

(***************************************************************************)
(* CmtPedersenTrapdoorCommitter, the receiver's getters, the channel        *)
(***************************************************************************)
validateTrapdoor_anyExponent(dlog, h, trap) ==
    isMember(dlog, exponentiate(dlog, getGenerator(dlog), trap))

\* g^trapdoor equals h
validateTrapdoor(dlog, h, trap) ==
    LET gToTrap == exponentiate(dlog, getGenerator(dlog), trap)
    IN  gToTrap = h

\* CmtPedersenTrapdoorCommitter::validate on a candidate trapdoor.
\* ret.x: the candidate
validate(trap) ==
    /\ UNCHANGED sigVars
    /\ cmtState = "ready"
    /\ ret' = call("validate", 0, trap, 0,
                   IF validateTrapdoor(dlogPedersen, cmtH, trap) THEN "true" ELSE "false", 0)
    /\ UNCHANGED <<rcvState, trapdoor, rcvH, rcvCommitmentMap, cmtState, cmtH,
                   cmtCommitmentMap, cmtDraws, toCommitter, toReceiver>>

\* the candidates validate is asked about: two periods of the exponent
TrapdoorCandidates == 0..(2 * getOrder(dlogPedersen) - 1)

\* what a peer can write as the preprocess message: any residue modulo p,
\* and 0
PreprocessElements == 0..(dlogPedersen.p - 1)

\* a peer that is no honest receiver writes a preprocess message of its own
forgePreprocess(h) ==
    /\ UNCHANGED sigVars
    /\ rcvState = "none"
    /\ Len(toCommitter) < MaxInFlight
    /\ toCommitter' = Append(toCommitter, elementToString(h))
    /\ ret' = call("forgePreprocess", 0, h, 0, "sent", 0)
    /\ UNCHANGED <<rcvState, trapdoor, rcvH, rcvCommitmentMap, cmtState, cmtH,
                   cmtCommitmentMap, cmtDraws, toReceiver>>

getPreProcessedValues_trapdoor ==
    /\ UNCHANGED sigVars
    /\ rcvState = "ready"
    /\ ret' = call("getPreProcessedValues", 0, 0, 0, "ok", trapdoor)
    /\ UNCHANGED <<rcvState, trapdoor, rcvH, rcvCommitmentMap, cmtState, cmtH,
                   cmtCommitmentMap, cmtDraws, toCommitter, toReceiver>>

\* the receiver's getPreProcessedValues: h
getPreProcessedValues ==
    /\ UNCHANGED sigVars
    /\ rcvState = "ready"
    /\ ret' = call("getPreProcessedValues", 0, 0, 0, "ok", rcvH)
    /\ UNCHANGED <<rcvState, trapdoor, rcvH, rcvCommitmentMap, cmtState, cmtH,
                   cmtCommitmentMap, cmtDraws, toCommitter, toReceiver>>

\* what getCommitmentPhaseValues does with commitmentMap[id]: for a stored
\* message its commitment, reconstructed with the membership check; for the
\* null entry operator[] inserts for an id never received, ->getCommitment()
\* dereferences null, and the process dies or goes on with whatever it read
commitmentPhaseOutcomes(dlog, msg) ==
    IF msg.null
    THEN {[result |-> "crash", value |-> 0]}
           \cup {[result |-> "garbage", value |-> c] : c \in GroupElements(dlog)}
    ELSE LET ge == reconstructElement(dlog, msg.c)
         IN  {IF ge.ok THEN [result |-> "ok", value |-> ge.element]
                       ELSE [result |-> "invalid_argument", value |-> 0]}

\* the receiver's getCommitmentPhaseValues(id)
getCommitmentPhaseValues(id) ==
    /\ UNCHANGED sigVars
    /\ rcvState = "ready"
    /\ rcvCommitmentMap' = mapTouch(rcvCommitmentMap, id)
    /\ \E outcome \in commitmentPhaseOutcomes(dlogPedersen, mapGet(rcvCommitmentMap, id)) :
          /\ ret' = call("getCommitmentPhaseValues", id, 0, 0, outcome.result, outcome.value)
          /\ rcvState' = IF outcome.result = "crash" THEN "crashed" ELSE rcvState
    /\ UNCHANGED <<trapdoor, rcvH, cmtState, cmtH, cmtCommitmentMap, cmtDraws,
                   toCommitter, toReceiver>>

\* receiveCommitment when channel->readWithSizeIntoVector throws: the
\* exception leaves receiveCommitment before anything is assigned
receiveCommitmentReadFails ==
    /\ UNCHANGED sigVars
    /\ rcvState = "ready"
    /\ ret' = call("receiveCommitment", 0, 0, 0, "IoError", 0)
    /\ UNCHANGED <<rcvState, trapdoor, rcvH, rcvCommitmentMap, cmtState, cmtH,
                   cmtCommitmentMap, cmtDraws, toCommitter, toReceiver>>

\* the values the callers commit to: Zq, its boundary q, and both sides out
CommitX == (-1)..(getOrder(dlogPedersen) + 1)

\* honest parties: the committer opens only what it committed
PedNext ==
    \/ receiverConstruct(TRUE, TRUE)
    \/ committerConstruct(TRUE, TRUE)
    \/ \E x \in CommitX, id \in Ids : commit(x, id)
    \/ receiveCommitment
    \/ \E id \in Ids \cap DOMAIN cmtCommitmentMap : decommit(id)
    \/ \E id \in Ids : receiveDecommitment(id)

SpecPedersen == Init /\ [][PedNext]_vars

\* the id of the session with a cheating committer
CheatIds == {3}

\* a committer that also opens what it never committed and forges openings
PedCheatNext ==
    \/ receiverConstruct(TRUE, TRUE)
    \/ committerConstruct(TRUE, TRUE)
    \/ \E x \in CommitX, id \in CheatIds : commit(x, id)
    \/ receiveCommitment
    \/ \E id \in CheatIds : decommit(id)
    \/ \E x \in DecommitX, r \in DecommitR : cheatDecommit(x, r)
    \/ \E id \in CheatIds : receiveDecommitment(id)

SpecPedersenCheat == Init /\ [][PedCheatNext]_vars

\* the value a committer commits to once it is established
SetupCommitX == {1}

\* session establishment: groups that fail the constructors' checks, a
\* peer that writes a preprocess message of its own, and the trapdoor check
PedSetupNext ==
    \/ \E hasDDH \in BOOLEAN, validGroup \in BOOLEAN : receiverConstruct(hasDDH, validGroup)
    \/ \E h \in PreprocessElements : forgePreprocess(h)
    \/ \E hasDDH \in BOOLEAN, validGroup \in BOOLEAN : committerConstruct(hasDDH, validGroup)
    \/ \E trap \in TrapdoorCandidates : validate(trap)
    \/ \E x \in SetupCommitX, id \in CheatIds : commit(x, id)

SpecPedersenSetup == Init /\ [][PedSetupNext]_vars

\* one session whose receiver is also asked for its values
PedObserveNext ==
    \/ receiverConstruct(TRUE, TRUE)
    \/ committerConstruct(TRUE, TRUE)
    \/ \E x \in CommitX, id \in CheatIds : commit(x, id)
    \/ receiveCommitment
    \/ \E id \in CheatIds \cap DOMAIN cmtCommitmentMap : decommit(id)
    \/ \E id \in CheatIds : receiveDecommitment(id)
    \/ getPreProcessedValues
    \/ \E id \in CheatIds : getCommitmentPhaseValues(id)

SpecPedersenObserve == Init /\ [][PedObserveNext]_vars

\* one session whose channel can fail a read
PedAbortNext ==
    \/ receiverConstruct(TRUE, TRUE)
    \/ committerConstruct(TRUE, TRUE)
    \/ \E x \in CommitX, id \in CheatIds : commit(x, id)
    \/ receiveCommitment
    \/ receiveCommitmentReadFails
    \/ \E id \in CheatIds \cap DOMAIN cmtCommitmentMap : decommit(id)
    \/ \E id \in CheatIds : receiveDecommitment(id)

SpecPedersenAbort == Init /\ [][PedAbortNext]_vars

(***************************************************************************)
(* SigmaDHProverComputation                                                *)
(***************************************************************************)
\* checkChallengeLength(size): the challenge is t bits long
checkChallengeLength(t, size) == size * 8 = t

\* the constructor: sets t, throws when checkSoundnessParam fails.
\* sret.e: the t it was given
proverConstruct(t) ==
    /\ pvT = -1
    /\ IF ~pvCheckSoundnessParam(dlogSigma, t)
       THEN /\ sret' = sigmaCall("SigmaDHProverComputation", "invalid_argument", t)
            /\ UNCHANGED pvT
       ELSE /\ pvT' = t
            /\ sret' = sigmaCall("SigmaDHProverComputation", "ok", t)
    /\ UNCHANGED <<pvInput, pvR, vfT, vfE, simT, wire, acceptedFor>>
    /\ UNCHANGED pedVars

\* samples r, computes a = g^r and b = h^r
computeFirstMsg(input) ==
    /\ pvT >= 0
    /\ \E r \in RandomSample \cap getRandomInRange(0, getOrder(dlogSigma) - 1) :
          LET a == exponentiate(dlogSigma, getGenerator(dlogSigma), r)
              b == exponentiate(dlogSigma, input.common.h, r)
              first == sigmaDHMsgToString(a, b)
          IN  /\ pvR' = r
              /\ wire' = [stage |-> "first", common |-> input.common, first |-> first,
                          challenge |-> <<>>, second |-> 0, delivered |-> 0]
              /\ acceptedFor' =
                    IF wire.common = input.common /\ wire.first = first
                    THEN acceptedFor ELSE {}
    /\ pvInput' = input
    /\ sret' = sigmaCall("computeFirstMsg", "ok", 0)
    /\ UNCHANGED <<pvT, vfT, vfE, simT>>
    /\ UNCHANGED pedVars

secondMsg_noChallenge(dlog, r, challenge, w) ==
    (r + w) % getOrder(dlog)

\* z = (r + ew) mod q
secondMsg(dlog, r, challenge, w) ==
    LET q == getOrder(dlog)
        e == decodeBigInteger(challenge)
        ew == (e * w) % q
    IN  (r + ew) % q

\* what computeSecondMsg reads as the witness: input->getW(), and for the
\* null input of a prover that computed no first message a null dereference:
\* the process dies, or goes on with whatever it read
witnessesRead(input) ==
    IF input.null
    THEN {[kind |-> "crash", w |-> 0]} \cup {[kind |-> "garbage", w |-> w] : w \in {0, 5}}
    ELSE {[kind |-> "ok", w |-> input.w]}

computeSecondMsg_keepR(challenge) ==
    /\ pvT >= 0
    /\ IF ~checkChallengeLength(pvT, Len(challenge))
       THEN /\ sret' = sigmaCall("computeSecondMsg", "CheatAttemptException", 0)
            /\ UNCHANGED <<pvT, pvR, wire>>
       ELSE \E read \in witnessesRead(pvInput) :
               IF read.kind = "crash"
               THEN /\ pvT' = -2
                    /\ sret' = sigmaCall("computeSecondMsg", "crash", 0)
                    /\ UNCHANGED <<pvR, wire>>
               ELSE LET z == secondMsg(dlogSigma, pvR, challenge, read.w)
                    IN  /\ pvR' = pvR
                        /\ wire' = [wire EXCEPT
                              !.stage = IF wire.stage = "first" /\ read.kind = "ok"
                                        THEN "answered" ELSE "replayed",
                              !.challenge = challenge,
                              !.second = z,
                              !.delivered = z]
                        /\ sret' = sigmaCall("computeSecondMsg", "ok", 0)
                        /\ UNCHANGED pvT
    /\ UNCHANGED <<pvInput, vfT, vfE, simT, acceptedFor>>
    /\ UNCHANGED pedVars

computeSecondMsg_lengthInBits(challenge) ==
    /\ pvT >= 0
    /\ IF Len(challenge) # pvT
       THEN /\ sret' = sigmaCall("computeSecondMsg", "CheatAttemptException", 0)
            /\ UNCHANGED <<pvT, pvR, wire>>
       ELSE \E read \in witnessesRead(pvInput) :
               IF read.kind = "crash"
               THEN /\ pvT' = -2
                    /\ sret' = sigmaCall("computeSecondMsg", "crash", 0)
                    /\ UNCHANGED <<pvR, wire>>
               ELSE LET z == secondMsg(dlogSigma, pvR, challenge, read.w)
                    IN  /\ pvR' = 0
                        /\ wire' = [wire EXCEPT
                              !.stage = IF wire.stage = "first" /\ read.kind = "ok"
                                        THEN "answered" ELSE "replayed",
                              !.challenge = challenge,
                              !.second = z,
                              !.delivered = z]
                        /\ sret' = sigmaCall("computeSecondMsg", "ok", 0)
                        /\ UNCHANGED pvT
    /\ UNCHANGED <<pvInput, vfT, vfE, simT, acceptedFor>>
    /\ UNCHANGED pedVars

\* checks the challenge length, computes z and resets r
computeSecondMsg(challenge) ==
    /\ pvT >= 0
    /\ IF ~checkChallengeLength(pvT, Len(challenge))
       THEN /\ sret' = sigmaCall("computeSecondMsg", "CheatAttemptException", 0)
            /\ UNCHANGED <<pvT, pvR, wire>>
       ELSE \E read \in witnessesRead(pvInput) :
               IF read.kind = "crash"
               THEN /\ pvT' = -2
                    /\ sret' = sigmaCall("computeSecondMsg", "crash", 0)
                    /\ UNCHANGED <<pvR, wire>>
               ELSE LET z == secondMsg(dlogSigma, pvR, challenge, read.w)
                    IN  /\ pvR' = 0
                        /\ wire' = [wire EXCEPT
                              !.stage = IF wire.stage = "first" /\ read.kind = "ok"
                                        THEN "answered" ELSE "replayed",
                              !.challenge = challenge,
                              !.second = z,
                              !.delivered = z]
                        /\ sret' = sigmaCall("computeSecondMsg", "ok", 0)
                        /\ UNCHANGED pvT
    /\ UNCHANGED <<pvInput, vfT, vfE, simT, acceptedFor>>
    /\ UNCHANGED pedVars

(***************************************************************************)
(* SigmaDHVerifierComputation                                              *)
(***************************************************************************)
\* the constructor: validateGroup, then sets t and throws when
\* checkSoundnessParam fails.  sret.e: the t it was given
verifierConstruct(validGroup, t) ==
    /\ vfT = -1
    /\ IF ~validGroup
       THEN /\ sret' = sigmaCall("SigmaDHVerifierComputation", "InvalidDlogGroupException", t)
            /\ UNCHANGED vfT
       ELSE IF ~vfCheckSoundnessParam(dlogSigma, t)
       THEN /\ sret' = sigmaCall("SigmaDHVerifierComputation", "invalid_argument", t)
            /\ UNCHANGED vfT
       ELSE /\ vfT' = t
            /\ sret' = sigmaCall("SigmaDHVerifierComputation", "ok", t)
    /\ UNCHANGED <<pvT, pvInput, pvR, vfE, simT, wire, acceptedFor>>
    /\ UNCHANGED pedVars

\* fills e with t/8 random bytes
sampleChallenge ==
    /\ vfT >= 0
    /\ vfE' \in genRandomBytesVector(vfT)
    /\ sret' = sigmaCall("sampleChallenge", "ok", 0)
    /\ UNCHANGED <<pvT, pvInput, pvR, vfT, simT, wire, acceptedFor>>
    /\ UNCHANGED pedVars

verify_membershipOnly(dlog, e, input, firstMsg, z) ==
    LET aElement == reconstructElement(dlog, firstMsg.a)
        bElement == reconstructElement(dlog, firstMsg.b)
    IN  IF ~aElement.ok \/ ~bElement.ok THEN "invalid_argument"
        ELSE IF isMember(dlog, input.h) THEN "true" ELSE "false"

verify_firstEquationOnly(dlog, e, input, firstMsg, z) ==
    LET aElement == reconstructElement(dlog, firstMsg.a)
        bElement == reconstructElement(dlog, firstMsg.b)
    IN  IF ~aElement.ok \/ ~bElement.ok THEN "invalid_argument"
        ELSE LET eBI == decodeBigInteger(e)
                 left1 == exponentiate(dlog, getGenerator(dlog), z)
                 right1 == multiplyGroupElements(dlog, aElement.element,
                                                 exponentiate(dlog, input.u, eBI))
             IN  IF isMember(dlog, input.h) /\ left1 = right1 THEN "true" ELSE "false"

\* ACC iff h is a member and g^z = a*u^e and h^z = b*v^e; a first message
\* that holds a non-member makes reconstructElement throw
verify(dlog, e, input, firstMsg, z) ==
    LET aElement == reconstructElement(dlog, firstMsg.a)
        bElement == reconstructElement(dlog, firstMsg.b)
    IN  IF ~aElement.ok \/ ~bElement.ok THEN "invalid_argument"
        ELSE LET eBI == decodeBigInteger(e)
                 left1 == exponentiate(dlog, getGenerator(dlog), z)
                 right1 == multiplyGroupElements(dlog, aElement.element,
                                                 exponentiate(dlog, input.u, eBI))
                 left2 == exponentiate(dlog, input.h, z)
                 right2 == multiplyGroupElements(dlog, bElement.element,
                                                 exponentiate(dlog, input.v, eBI))
             IN  IF isMember(dlog, input.h) /\ left1 = right1 /\ left2 = right2
                 THEN "true" ELSE "false"

\* verify on the messages of the run; e is cleared on every return, and kept
\* when reconstructElement throws
verifyTranscript ==
    /\ vfT >= 0
    /\ wire.stage \in {"answered", "replayed", "simulated"}
    /\ wire.first # <<>>
    /\ LET firstMsg == sigmaDHMsgFromString(wire.first)
           verdict == verify(dlogSigma, vfE, wire.common, firstMsg, wire.delivered)
       IN  /\ sret' = sigmaCall("verify", verdict, decodeBigInteger(vfE))
           /\ vfE' = IF verdict = "invalid_argument" THEN vfE ELSE <<>>
           /\ acceptedFor' =
                 IF verdict = "true"
                 THEN acceptedFor \cup {[e |-> decodeBigInteger(vfE), z |-> wire.delivered]}
                 ELSE acceptedFor
    /\ UNCHANGED <<pvT, pvInput, pvR, vfT, simT, wire>>
    /\ UNCHANGED pedVars

\* the second message reaches the verifier changed by delta
tamperSecondMsg(delta) ==
    /\ wire.stage \in {"answered", "simulated"}
    /\ wire.delivered = wire.second
    /\ wire' = [wire EXCEPT !.delivered = wire.second + delta]
    /\ sret' = sigmaCall("tamperSecondMsg", "sent", 0)
    /\ UNCHANGED <<pvT, pvInput, pvR, vfT, vfE, simT, acceptedFor>>
    /\ UNCHANGED pedVars

(***************************************************************************)
(* SigmaDHSimulator                                                        *)
(***************************************************************************)
\* the constructor: sets t, throws when checkSoundnessParam fails.
\* sret.e: the t it was given
simulatorConstruct(t) ==
    /\ simT = -1
    /\ IF ~simCheckSoundnessParam(dlogSigma, t)
       THEN /\ sret' = sigmaCall("SigmaDHSimulator", "invalid_argument", t)
            /\ UNCHANGED simT
       ELSE /\ simT' = t
            /\ sret' = sigmaCall("SigmaDHSimulator", "ok", t)
    /\ UNCHANGED <<pvT, pvInput, pvR, vfT, vfE, wire, acceptedFor>>
    /\ UNCHANGED pedVars

simulatedFirstMsg_plusE(dlog, input, e, z) ==
    LET a == multiplyGroupElements(dlog,
                 exponentiate(dlog, getGenerator(dlog), z),
                 exponentiate(dlog, input.u, e))
        b == multiplyGroupElements(dlog,
                 exponentiate(dlog, input.h, z),
                 exponentiate(dlog, input.v, e))
    IN  [a |-> a, b |-> b]

\* a = g^z * u^(q-e), b = h^z * v^(q-e)
simulatedFirstMsg(dlog, input, e, z) ==
    LET minusE == getOrder(dlog) - e
        a == multiplyGroupElements(dlog,
                 exponentiate(dlog, getGenerator(dlog), z),
                 exponentiate(dlog, input.u, minusE))
        b == multiplyGroupElements(dlog,
                 exponentiate(dlog, input.h, z),
                 exponentiate(dlog, input.v, minusE))
    IN  [a |-> a, b |-> b]

\* simulate(input, challenge): checks the challenge length, samples z and
\* outputs ((a, b), e, z)
simulate(input, challenge) ==
    /\ simT >= 0
    /\ IF ~checkChallengeLength(simT, Len(challenge))
       THEN /\ sret' = sigmaCall("simulate", "CheatAttemptException", 0)
            /\ UNCHANGED <<wire, acceptedFor>>
       ELSE \E z \in RandomSample \cap getRandomInRange(0, getOrder(dlogSigma) - 1) :
               LET e == decodeBigInteger(challenge)
                   msg == simulatedFirstMsg(dlogSigma, input, e, z)
                   first == sigmaDHMsgToString(msg.a, msg.b)
               IN  /\ wire' = [stage |-> "simulated", common |-> input, first |-> first,
                               challenge |-> challenge, second |-> z, delivered |-> z]
                   /\ acceptedFor' =
                         IF wire.common = input /\ wire.first = first
                         THEN acceptedFor ELSE {}
                   /\ sret' = sigmaCall("simulate", "ok", e)
    /\ UNCHANGED <<pvT, pvInput, pvR, vfT, vfE, simT>>
    /\ UNCHANGED pedVars

\* how far a second message is moved on its way: by one, or by the order
TamperDeltas == {1, getOrder(dlogSigma)}

\* the prover answers, and the simulator is given, the verifier's challenge
SigNext ==
    \/ \E input \in ProverInputs : computeFirstMsg(input)
    \/ sampleChallenge
    \/ computeSecondMsg(vfE)
    \/ \E input \in CommonInputs : simulate(input, vfE)
    \/ \E delta \in TamperDeltas : tamperSecondMsg(delta)
    \/ verifyTranscript

SpecSigma == InitSigma /\ [][SigNext]_vars

\* the challenges handed to the prover and to the simulator: of no byte,
\* of one byte and of two
Challenges == byteVectors(0) \cup byteVectors(1) \cup byteVectors(2)

\* the common input of the runs that start at the constructors
ConstructedRunInputs == {proverInput(16, 461, 270, 5)}

\* the three objects are constructed, each with a t of its own, and run on
\* challenges of every length
SigConstructNext ==
    \/ \E t \in SoundnessParams : proverConstruct(t)
    \/ \E validGroup \in BOOLEAN, t \in SoundnessParams : verifierConstruct(validGroup, t)
    \/ \E t \in SoundnessParams : simulatorConstruct(t)
    \/ sampleChallenge
    \/ \E input \in ConstructedRunInputs : computeFirstMsg(input)
    \/ \E challenge \in Challenges : computeSecondMsg(challenge)
    \/ \E input \in ConstructedRunInputs, challenge \in Challenges :
          simulate(input.common, challenge)

SpecSigmaConstruct == Init /\ [][SigConstructNext]_vars

(***************************************************************************)
(* Properties of the Pedersen sessions.                                    *)
(***************************************************************************)
qPed == getOrder(dlogPedersen)

\* the committer holds an opening for id
committed(id) ==
    /\ id \in DOMAIN cmtCommitmentMap
    /\ ~cmtCommitmentMap[id].null

\* the receiver holds a commitment message for id
stored(id) ==
    /\ id \in DOMAIN rcvCommitmentMap
    /\ ~rcvCommitmentMap[id].null

\* the receiver holds, under id, the commitment the committer made under id
outstanding(id) ==
    /\ committed(id)
    /\ stored(id)
    /\ rcvCommitmentMap[id].c = cmtCommitmentMap[id].c

\* the last call was receiveDecommitment(id) and the message it read was the
\* committer's own opening of the commitment the receiver holds
honestOpening(id) ==
    /\ ret.op = "receiveDecommitment"
    /\ ret.id = id
    /\ outstanding(id)
    /\ ret.x = cmtCommitmentMap[id].x
    /\ ret.r = cmtCommitmentMap[id].r

\* C1: when the receiver runs receiveDecommitment(id) on the decommitment
\* message the committer generated for the commitment the receiver stored
\* under id, and the committed x is in [0, q), it returns Some(x).
C1_HonestRoundTrip ==
    \A id \in Ids :
        (honestOpening(id) /\ cmtCommitmentMap[id].x \in 0..(qPed - 1))
            => (ret.result = "Some" /\ ret.value = cmtCommitmentMap[id].x)

C1_Witness ==
    /\ honestOpening(7)
    /\ trapdoor = 2
    /\ cmtCommitmentMap[7].x = 2
    /\ cmtCommitmentMap[7].r = 1
    /\ ret.result = "Some"
    /\ ret.value = 2

\* C2: a decommitment message (x', r) with x' different from the committed
\* x in [0, q), and the r of the commitment, is rejected (None), whatever
\* trapdoor the receiver sampled.
C2_TamperedOpeningRejected ==
    \A id \in CheatIds :
        ( /\ ret.op = "receiveDecommitment"
          /\ ret.id = id
          /\ outstanding(id)
          /\ cmtCommitmentMap[id].x \in 0..(qPed - 1)
          /\ ret.r = cmtCommitmentMap[id].r
          /\ ret.x # cmtCommitmentMap[id].x )
            => ret.result = "None"

\* C3: every commitment outstanding under an id opens to the value committed
\* under that id, whatever other ids were committed or opened before, and in
\* whatever order.
C3_AnyOrderOpens ==
    \A id \in Ids :
        outstanding(id) =>
            LET opening == [x |-> cmtCommitmentMap[id].x, r |-> cmtCommitmentMap[id].r]
                read == decommitmentMsgFromString(decommitmentMsgToString(opening))
            IN  verifyDecommitment(dlogPedersen, rcvH, rcvCommitmentMap[id], read)
                    = [result |-> "Some", value |-> cmtCommitmentMap[id].x]

\* id 3 has just been opened while id 7, committed to another value, is
\* still outstanding
C3_Witness ==
    /\ honestOpening(3)
    /\ ret.result = "Some"
    /\ outstanding(7)
    /\ cmtCommitmentMap[7].x # cmtCommitmentMap[3].x
    /\ cmtCommitmentMap[7].r # cmtCommitmentMap[3].r
    /\ trapdoor # 0

\* C8: whenever the receiver accepts an opening (x, r) of a stored commitment
\* c, every other opening (x', r') of c with x' # x that verification accepts
\* gives the trapdoor as (r - r') * (x' - x)^(-1) mod q.
C8_BindingRevealsTrapdoor ==
    ( /\ ret.op = "receiveDecommitment"
      /\ ret.result = "Some"
      /\ stored(ret.id) )
        => \A x2 \in DecommitX, r2 \in DecommitR :
              ( /\ x2 # ret.x
                /\ verifyDecommitment(dlogPedersen, rcvH, rcvCommitmentMap[ret.id],
                                      [null |-> FALSE, x |-> x2, r |-> r2]).result = "Some" )
                  => \E inv \in 1..(qPed - 1) :
                        /\ (inv * (x2 - ret.x)) % qPed = 1
                        /\ trapdoor = ((ret.r - r2) * inv) % qPed

qSig == getOrder(dlogSigma)

gSig == getGenerator(dlogSigma)

\* the last call was verify, with the challenge of the transcript retained
verifiedSameChallenge ==
    /\ sret.op = "verify"
    /\ sret.e = decodeBigInteger(wire.challenge)

\* the transcript is the prover's own run on a Diffie-Hellman tuple
honestRun ==
    /\ wire.stage = "answered"
    /\ ~pvInput.null
    /\ pvInput.common = wire.common
    /\ pvInput.w \in 0..(qSig - 1)
    /\ isMember(dlogSigma, wire.common.h)
    /\ wire.common.u = modPow(gSig, pvInput.w, dlogSigma.p)
    /\ wire.common.v = modPow(wire.common.h, pvInput.w, dlogSigma.p)

\* C4: completeness: when the prover ran computeFirstMsg and computeSecondMsg
\* on (h, u = g^w, v = h^w) with h in the group, and the verifier holds the
\* challenge the prover answered, verify on the untouched z returns true
C4_Completeness ==
    (verifiedSameChallenge /\ honestRun /\ wire.delivered = wire.second)
        => sret.result = "true"

C4_Witness ==
    /\ verifiedSameChallenge
    /\ honestRun
    /\ wire.delivered = wire.second
    /\ sret.e = 255
    /\ sret.result = "true"

\* the first message on the wire holds two members of the group
firstMsgOfElements ==
    LET firstMsg == sigmaDHMsgFromString(wire.first)
    IN  /\ isMember(dlogSigma, firstMsg.a)
        /\ isMember(dlogSigma, firstMsg.b)

\* C5: a tampered response is rejected: for the prover's first message and
\* the challenge it answered with z, verify returns false for a second
\* message z' that is not congruent to z modulo q
C5_TamperedResponseRejected ==
    ( /\ verifiedSameChallenge
      /\ wire.stage = "answered"
      /\ firstMsgOfElements
      /\ (wire.delivered - wire.second) % qSig # 0 )
        => sret.result = "false"

C5_Witness ==
    /\ verifiedSameChallenge
    /\ honestRun
    /\ wire.delivered = wire.second + 1
    /\ sret.result = "false"

\* the simulator's a and b satisfy g^z = a * u^e and h^z = b * v^e
simulatedEquationsHold ==
    LET firstMsg == sigmaDHMsgFromString(wire.first)
        e == decodeBigInteger(wire.challenge)
        z == wire.second
        P == dlogSigma.p
    IN  /\ modPow(gSig, z, P) = (firstMsg.a * modPow(wire.common.u, e, P)) % P
        /\ modPow(wire.common.h, z, P) = (firstMsg.b * modPow(wire.common.v, e, P)) % P

\* C6: a simulated transcript verifies: for h in the group, a challenge of
\* t/8 bytes and the z the simulator sampled, its (a, b) satisfies
\* g^z = a * u^e and h^z = b * v^e, and a verifier that holds the same e
\* accepts the transcript
C6_SimulatedTranscriptVerifies ==
    ( /\ wire.stage = "simulated"
      /\ wire.delivered = wire.second
      /\ isMember(dlogSigma, wire.common.h) )
        => /\ simulatedEquationsHold
           /\ verifiedSameChallenge => sret.result = "true"

C6_Witness ==
    /\ wire.stage = "simulated"
    /\ wire.delivered = wire.second
    /\ isMember(dlogSigma, wire.common.h)
    /\ verifiedSameChallenge
    /\ wire.challenge = <<0>>
    /\ sret.result = "true"

\* the w that two answers to one first message give:
\* (z - z') * (e - e')^(-1) mod q
extractedWitness(t1, t2) ==
    LET inverse == modPow((t1.e - t2.e) % qSig, qSig - 2, qSig)
    IN  (((t1.z - t2.z) % qSig) * inverse) % qSig

\* C7: special soundness: two transcripts with the same first message and
\* different challenges that verify both accepted give
\* w = (z - z') * (e - e')^(-1) mod q with u = g^w and v = h^w
C7_SpecialSoundness ==
    \A t1 \in acceptedFor : \A t2 \in acceptedFor :
        t1.e # t2.e =>
            LET w == extractedWitness(t1, t2)
            IN  /\ wire.common.u = modPow(gSig, w, dlogSigma.p)
                /\ wire.common.v = modPow(wire.common.h, w, dlogSigma.p)

C7_Witness ==
    \E t1 \in acceptedFor : \E t2 \in acceptedFor :
        /\ t1.e # t2.e
        /\ extractedWitness(t1, t2) = 5
        /\ wire.common.u = modPow(gSig, 5, dlogSigma.p)


(***************************************************************************)
(* Properties of session establishment, of unknown ids, of a failed        *)
(* channel and of what leaves the parties.                                 *)
(***************************************************************************)
\* C11: the trapdoor check: validate(tau) returns true if and only if
\* g^tau = h for the h the committer received; for the h of the honest
\* receiver it returns true for the receiver's trapdoor and false for every
\* tau not congruent to it modulo q
C11_TrapdoorCheck ==
    ret.op = "validate" =>
        /\ (ret.result = "true") <=> (modPow(dlogPedersen.g, ret.x, dlogPedersen.p) = cmtH)
        /\ (rcvState = "ready" /\ cmtH = rcvH) =>
              /\ ret.x = trapdoor => ret.result = "true"
              /\ (ret.x - trapdoor) % qPed # 0 => ret.result = "false"

C11_Witness ==
    /\ ret.op = "validate"
    /\ rcvState = "ready"
    /\ cmtH = rcvH
    /\ trapdoor = 2
    /\ ret.x = trapdoor
    /\ ret.result = "true"

\* the receiver never stored a commitment under id
neverReceived(id) == mapGet(rcvCommitmentMap, id).null

\* C13: an unknown id on the receiver: receiveDecommitment(id) for an id
\* under which no commitment was received ends with an error, neither a
\* value nor the rejection
C13_UnknownIdOnReceiver ==
    (ret.op = "receiveDecommitment" /\ neverReceived(ret.id))
        => ret.result = "invalid_argument"

C13_Witness ==
    /\ ret.op = "receiveDecommitment"
    /\ neverReceived(ret.id)
    /\ ret.x = 1
    /\ ret.result = "invalid_argument"

\* C14: an unknown id on the committer: generateDecommitmentMsg(id) for an
\* id it never committed under fails with an error, produces no message
\* and leaves the committer's map unchanged
C14_UnknownIdOnCommitter ==
    (ret.op = "generateDecommitmentMsg" /\ mapGet(cmtCommitmentMap, ret.id).null)
        => /\ ret.result \notin {"ok", "garbage", "crash"}
           /\ ret.id \notin DOMAIN cmtCommitmentMap

\* C15: the committer's preprocess rejects a bad h: when the preprocess
\* message holds an element that is no member of the group, construction
\* fails with CheatAttempt and no committer session comes to exist
C15_PreprocessRejectsBadH ==
    ( /\ ret.op = "CmtPedersenCommitterCore"
      /\ ret.result \notin {"SecurityLevelException", "InvalidDlogGroupException"}
      /\ ~isMember(dlogPedersen, ret.x) )
        => /\ ret.result = "CheatAttemptException"
           /\ cmtState # "ready"

\* C16: the receiver's construction checks come before any effect: without
\* DDH it fails with SecurityLevel, also for an invalid group; with DDH and
\* an invalid group it fails with InvalidGroup; in both cases no trapdoor is
\* sampled and nothing is written to the channel
C16_ReceiverChecksFirst ==
    [][ \A hasDDH \in BOOLEAN, validGroup \in BOOLEAN :
            receiverConstruct(hasDDH, validGroup) =>
                /\ ret'.result = IF ~hasDDH THEN "SecurityLevelException"
                                 ELSE IF ~validGroup THEN "InvalidDlogGroupException"
                                 ELSE "ok"
                /\ ~(hasDDH /\ validGroup) =>
                      /\ trapdoor' = trapdoor
                      /\ rcvH' = rcvH
                      /\ toCommitter' = toCommitter
                      /\ rcvState' # "ready" ]_vars

C16_Witness ==
    /\ ret.op = "CmtPedersenReceiverCore"
    /\ ret.result = "InvalidDlogGroupException"
    /\ rcvState = "failed"
    /\ toCommitter = <<>>

\* C18: abort is terminal: after a channel read of the receiver failed,
\* the next operation on the receiver fails with SessionAborted (or because
\* the channel fails once more) and neither takes a message from the
\* channel nor changes the commitment map
C18_AbortIsTerminal ==
    [][ ( /\ ret.op = "receiveCommitment"
          /\ ret.result = "IoError"
          /\ ret'.op \in {"receiveCommitment", "receiveDecommitment"} )
            => /\ ret'.result \in {"SessionAborted", "IoError"}
               /\ toReceiver' = toReceiver
               /\ rcvCommitmentMap' = rcvCommitmentMap ]_vars

\* the r of [0, q-1] under which the committer's c for x is the element c
randomnessFor(h, x, c) ==
    {r \in getRandomInRange(0, qPed - 1) : computeCommitment(dlogPedersen, h, x, r) = c}

\* C19: perfect hiding: for the h the committer holds and any two values in
\* [0, q), every group element is the commitment to either value under
\* exactly one r of [0, q-1]
C19_PerfectHiding ==
    cmtState = "ready" =>
        \A x0 \in 0..(qPed - 1) : \A x1 \in 0..(qPed - 1) :
            \A c \in GroupElements(dlogPedersen) :
                /\ Cardinality(randomnessFor(cmtH, x0, c)) = 1
                /\ Cardinality(randomnessFor(cmtH, x1, c)) = 1

C19_Witness ==
    /\ cmtState = "ready"
    /\ cmtH = 4
    /\ ret.op = "generateCommitmentMsg"
    /\ ret.result = "ok"
    /\ randomnessFor(cmtH, 1, ret.value) # randomnessFor(cmtH, 2, ret.value)

\* C20: trapdoor confidentiality: what the receiver wrote to the channel is
\* h = g^trapdoor and nothing else, and what its operations return is the h,
\* the stored commitment, the id the message carried and the x of the
\* opening, never the trapdoor
C20_TrapdoorConfidentiality ==
    /\ rcvState = "ready" => rcvH = modPow(dlogPedersen.g, trapdoor, dlogPedersen.p)
    /\ \A i \in 1..Len(toCommitter) : toCommitter[i] = elementToString(rcvH)
    /\ ret.op = "CmtPedersenReceiverCore" => ret.value = 0
    /\ ret.op = "getPreProcessedValues" => ret.value = rcvH
    /\ (ret.op = "getCommitmentPhaseValues" /\ ret.result = "ok")
          => ret.value = rcvCommitmentMap[ret.id].c
    /\ ret.op = "receiveCommitment"
          => /\ ret.id \in DOMAIN cmtCommitmentMap
             /\ ret.value = ret.id
    /\ ret.op = "receiveDecommitment"
          => ret.value = IF ret.result = "Some" THEN ret.x ELSE 0

C20_Witness ==
    /\ ret.op = "getPreProcessedValues"
    /\ trapdoor = 1
    /\ ret.value = 2
    /\ toCommitter = <<>>
    /\ cmtState = "ready"


(***************************************************************************)
(* Properties of the SigmaDH constructors and of the challenge length.     *)
(***************************************************************************)
SigmaConstructors ==
    {"SigmaDHProverComputation", "SigmaDHVerifierComputation", "SigmaDHSimulator"}

\* the t of the object the last constructor call was to build
constructedT ==
    IF sret.op = "SigmaDHProverComputation" THEN pvT
    ELSE IF sret.op = "SigmaDHVerifierComputation" THEN vfT
    ELSE simT

\* C12: soundness parameter rejection: each of the three constructors,
\* given a t with 2^t >= q, fails and leaves no object; given a t with
\* 2^t < q it does not fail for its soundness parameter, and where it
\* succeeds the object holds that t
C12_SoundnessParamRejected ==
    sret.op \in SigmaConstructors =>
        /\ 2^sret.e >= qSig =>
              /\ sret.result \in {"invalid_argument", "InvalidDlogGroupException"}
              /\ constructedT = -1
        /\ 2^sret.e < qSig => sret.result # "invalid_argument"
        /\ sret.result = "ok" <=> constructedT = sret.e

C12_Witness ==
    /\ sret.op = "SigmaDHVerifierComputation"
    /\ sret.e = 9
    /\ sret.result = "invalid_argument"
    /\ vfT = -1
    /\ pvT = 8
    /\ simT = 4

C21_ProverOneShot ==
    [][ (wire.stage = "answered" /\ sret'.op = "computeSecondMsg")
            => sret'.result # "ok" ]_vars

\* C22: prover zeroization: computeSecondMsg returns z = (r + e*w) mod q
\* for the r of the preceding computeFirstMsg, and when it has returned z
\* the prover's r is 0
C22_ProverZeroization ==
    [][ \A challenge \in Challenges :
            (computeSecondMsg(challenge) /\ sret'.result = "ok") =>
                /\ pvR' = 0
                /\ ~pvInput.null =>
                      wire'.second =
                          (pvR + decodeBigInteger(challenge) * pvInput.w) % qSig ]_vars

C22_Witness ==
    /\ sret.op = "computeSecondMsg"
    /\ sret.result = "ok"
    /\ wire.stage = "answered"
    /\ wire.first = sigmaDHMsgToString(modPow(gSig, 7, dlogSigma.p),
                                       modPow(wire.common.h, 7, dlogSigma.p))
    /\ wire.challenge = <<255>>
    /\ wire.second = (7 + 255 * 5) % qSig
    /\ pvR = 0

\* C23: verifier zeroization: after every verify, whether it returned true
\* or false or threw, the verifier's challenge buffer e is empty
C23_VerifierZeroization ==
    sret.op = "verify" => vfE = <<>>

\* C27: a verification needs a fresh challenge: verify on an empty
\* challenge buffer accepts no transcript
C27_FreshChallengeNeeded ==
    [][ (verifyTranscript /\ vfE = <<>>) => sret'.result # "true" ]_vars

\* the integers the challenges sampleChallenge can emit for t decode to
challengeValues(t) == {decodeBigInteger(e) : e \in genRandomBytesVector(t)}

\* C28: the challenge length is consistent for every admitted t: the
\* challenge sampleChallenge emitted passes the prover's length check,
\* decodes to an e with 0 <= e < 2^t, and e ranges over more than one value
C28_ChallengeLengthConsistent ==
    (sret.op = "sampleChallenge" /\ pvT = vfT) =>
        /\ checkChallengeLength(pvT, Len(vfE))
        /\ decodeBigInteger(vfE) \in 0..(2^vfT - 1)
        /\ Cardinality(challengeValues(vfT)) > 1

(***************************************************************************)
(* Properties of the maps and of the order of the messages.                *)
(***************************************************************************)
\* C24: the receiver's map is append-only: receiveDecommitment,
\* getCommitmentPhaseValues and getPreProcessedValues neither add an entry
\* nor remove or replace one
C24_ReceiverMapAppendOnly ==
    [][ ret'.op \in {"receiveDecommitment", "getCommitmentPhaseValues",
                     "getPreProcessedValues"}
            => rcvCommitmentMap' = rcvCommitmentMap ]_vars

\* the entry is (x, r, c) with c = g^r * h^x and 0 <= r < q
openingWellFormed(entry) ==
    /\ ~entry.null
    /\ entry.r \in 0..(qPed - 1)
    /\ entry.c = (modPow(dlogPedersen.g, entry.r, dlogPedersen.p)
                    * modPow(cmtH, entry.x, dlogPedersen.p)) % dlogPedersen.p

\* C25: the committer's openings: an entry stored under an id is not
\* replaced by a later generateCommitmentMsg with the same id, and every
\* stored entry is (x, r, c) with c = g^r * h^x and 0 <= r < q
C25_OpeningsStoredOnce ==
    [][ /\ \A id \in DOMAIN cmtCommitmentMap' : openingWellFormed(cmtCommitmentMap'[id])
        /\ \A id \in DOMAIN cmtCommitmentMap :
              cmtCommitmentMap'[id] = cmtCommitmentMap[id] ]_vars

\* C26: preprocess ordering: the receiver writes h once, at construction,
\* and nothing else; the committer reads that message at its construction,
\* before any commitment is generated
C26_PreprocessOrdering ==
    /\ rcvState = "none" => (toCommitter = <<>> /\ cmtState = "none")
    /\ (rcvState # "none" /\ cmtState = "none") => toCommitter = <<elementToString(rcvH)>>
    /\ cmtState # "none" => (toCommitter = <<>> /\ cmtH = rcvH)
    /\ cmtState = "none" =>
          (cmtDraws = 0 /\ toReceiver = <<>> /\ DOMAIN cmtCommitmentMap = {})

C26_Witness ==
    /\ cmtState = "ready"
    /\ cmtH = rcvH
    /\ toCommitter = <<>>
    /\ ret.op = "receiveDecommitment"
    /\ ret.result = "Some"

=============================================================================
